---------------------------- MODULE Spec2Model ----------------------------
(***************************************************************************)
(* Model of src/main.rs: three readers that open a named file and read it  *)
(* to a string, each packaging an I/O failure differently                  *)
(* (thiserror_function, anyhow_function, dyn_function), and the driver     *)
(* main that calls the three in turn and reports each failure.             *)
(*                                                                         *)
(* Two specifications share the readers' steps:                            *)
(*   Spec        the program: main calls the three readers in sequence on  *)
(*               "myfile.txt";                                             *)
(*   SpecReaders the three readers called from independent threads, each   *)
(*               on a path of its own, their steps interleaved.            *)
(* The file system is the environment: any content of every path is a      *)
(* possible initial state, and it does not change during a run.            *)
(***************************************************************************)
EXTENDS Naturals, Sequences, FiniteSets, TLC

VARIABLES
    fs,        \* file system: path -> entry
    arg,       \* reader -> the `file` argument of its call
    pc,        \* reader -> position in its body
    fh,        \* reader -> the path its local `fh` is open on, or NoHandle
    openfds,   \* reader -> number of OS descriptors the call holds open
    opens,     \* reader -> number of File::open attempts made by the call
    reads,     \* reader -> number of read_to_string attempts made by the call
    contents,  \* reader -> its local `contents` String
    result,    \* reader -> the value the call returned
    stdout,    \* the lines printed so far, oldest first
    calls,     \* the readers main has invoked so far, oldest first
    mainpc,    \* position of main
    exit       \* <<the process exit code>>, <<>> while main runs

vars == <<fs, arg, pc, fh, openfds, opens, reads, contents, result, stdout,
          calls, mainpc, exit>>

---------------------------------------------------------------------------
(* Bounds and finite domains *)

\* longest file text enumerated
MaxLen == 2

\* characters of a file text: one plain, one that Debug formatting escapes
Alphabet == {"a", "\""}

\* the path main passes to every reader
DemoPath == "myfile.txt"

Paths == {DemoPath, "other.txt"}

Readers == {"thiserror_function", "anyhow_function", "dyn_function"}

\* the order in which main calls the readers
MainOrder == <<"thiserror_function", "anyhow_function", "dyn_function">>

Texts == UNION {[1..n -> Alphabet] : n \in 0..MaxLen}

\* what a path can name: nothing, a file that may not be opened, a directory
\* (opens, cannot be read), a file that is not valid UTF-8, a text file
Entries ==
    {[type |-> t, text |-> <<>>] :
        t \in {"Missing", "Denied", "Directory", "Binary"}}
    \cup {[type |-> "Text", text |-> s] : s \in Texts}

NoHandle == "<no handle>"

---------------------------------------------------------------------------
(* Values *)

\* the unit value () of Ok(()): a value that is no text
Unit == <<"()">>

NoResult == [status |-> "None"]
Ok(v) == [status |-> "Ok", val |-> v]
Err(e) == [status |-> "Err", err |-> e]

\* an io::Error raised by the operating system
OsError(k, c, m) == [kind |-> k, repr |-> "Os", code |-> c, msg |-> m]

\* the io::Error read_to_string raises on bytes that are not UTF-8
InvalidUtf8 ==
    [kind |-> "InvalidData", repr |-> "SimpleMessage", code |-> 0,
     msg |-> "stream did not contain valid UTF-8"]

\* io::Error::new(kind, message): a fresh Custom error holding only the kind
\* and the message; it carries no OS code and no source error
io_Error_new(k, m) == [kind |-> k, repr |-> "Custom", code |-> 0, msg |-> m]

---------------------------------------------------------------------------
(* The standard-library calls the readers make *)

\* mutant: an open that creates the file it does not find
File_open_create(e) ==
    CASE e.type = "Denied" ->
            Err(OsError("PermissionDenied", 13, "Permission denied"))
      [] e.type = "Missing" -> Ok([type |-> "Text", text |-> <<>>])
      [] OTHER -> Ok(e)

\* File::open(file) on the entry the path names
File_open(e) ==
    CASE e.type = "Missing" ->
            Err(OsError("NotFound", 2, "No such file or directory"))
      [] e.type = "Denied" ->
            Err(OsError("PermissionDenied", 13, "Permission denied"))
      [] OTHER -> Ok(e)

\* mutant: a read that stops after the first character
read_to_string_short(e, buf) ==
    CASE e.type = "Directory" ->
            Err(OsError("IsADirectory", 21, "Is a directory"))
      [] e.type = "Binary" -> Err(InvalidUtf8)
      [] OTHER -> Ok(buf \o (IF e.text = <<>> THEN <<>> ELSE <<Head(e.text)>>))

\* fh.read_to_string(&mut contents) on the entry fh is open on: the text
\* appended to the buffer, or the error
read_to_string(e, buf) ==
    CASE e.type = "Directory" ->
            Err(OsError("IsADirectory", 21, "Is a directory"))
      [] e.type = "Binary" -> Err(InvalidUtf8)
      [] OTHER -> Ok(buf \o e.text)

\* String::new()
String_new == <<>>

RECURSIVE EscapeDebug(_)
\* the body of a String's Debug rendering: `"` is escaped, `a` is itself
EscapeDebug(s) ==
    IF s = <<>> THEN ""
    ELSE (IF Head(s) = "\"" THEN "\\\"" ELSE Head(s)) \o EscapeDebug(Tail(s))

\* format!("{:?}", contents)
DebugString(s) == "\"" \o EscapeDebug(s) \o "\""


---------------------------------------------------------------------------
(* How each reader packages a failure *)

\* the closure of thiserror_function's first map_err
thiserror_open_err(e, file) ==
    [variant |-> "IoError", source |-> e, file |-> file]

\* mutant: the read failure absorbed into the Other variant
thiserror_read_err_other(e, file) ==
    [variant |-> "Other", source |-> e, file |-> file]

\* the closure of thiserror_function's second map_err
thiserror_read_err(e, file) ==
    [variant |-> "IoError", source |-> e, file |-> file]

\* mutant: the context message replaces the cause instead of wrapping it
with_context_replace(e, msg) == [frames |-> <<[display |-> msg]>>]

\* Context::with_context on an Err(e): an anyhow::Error whose newest frame is
\* the context message, on top of the error it wraps. The io errors raised
\* here have no source of their own, so e is the last frame.
with_context(e, msg) == [frames |-> <<[display |-> msg], e>>]

\* anyhow::Error::chain(): the frames of the error, newest first
chain(err) == err.frames

anyhow_open_msg(file) == "Failed to open " \o file
anyhow_read_msg(file) == "Failed to read " \o file

dyn_open_msg(file) == "Failed to open " \o file
dyn_read_msg(file) == "Failed to read " \o file

\* mutant: the open failure passed on as it is, without map_err
dyn_open_err_passthrough(e, file) == e

\* the closure of dyn_function's first map_err
dyn_open_err(e, file) == io_Error_new(e.kind, dyn_open_msg(file))

\* mutant: the read failure rebuilt with ErrorKind::Other
dyn_read_err_other(e, file) == io_Error_new("Other", dyn_read_msg(file))

\* the closure of dyn_function's second map_err
dyn_read_err(e, file) == io_Error_new(e.kind, dyn_read_msg(file))

\* the error reader r returns when File::open fails with e
OpenErr(r, e, file) ==
    CASE r = "thiserror_function" -> thiserror_open_err(e, file)
      [] r = "anyhow_function" -> with_context(e, anyhow_open_msg(file))
      [] r = "dyn_function" -> dyn_open_err(e, file)

\* the error reader r returns when read_to_string fails with e
ReadErr(r, e, file) ==
    CASE r = "thiserror_function" -> thiserror_read_err(e, file)
      [] r = "anyhow_function" -> with_context(e, anyhow_read_msg(file))
      [] r = "dyn_function" -> dyn_read_err(e, file)

---------------------------------------------------------------------------
(* The readers, step by step *)

\* mutant: one file handle shared by all the calls
HandleOfShared(r) ==
    CHOOSE p \in {fh[q] : q \in Readers} \ {NoHandle} : TRUE

\* the file a reader's local fh is open on
HandleOf(r) == fh[r]

\* mutant: the descriptor is leaked
drop_fh_leak(n) == n

\* fh goes out of scope: its descriptor is closed
drop_fh(n) == n - 1

\* let mut fh = File::open(file).map_err(..)?;  let mut contents = String::new();
OpenStep(r) ==
    /\ pc[r] = "open"
    /\ opens' = [opens EXCEPT ![r] = @ + 1]
    /\ LET o == File_open(fs[arg[r]]) IN
         IF o.status = "Err"
         THEN /\ result' = [result EXCEPT ![r] = Err(OpenErr(r, o.err, arg[r]))]
              /\ pc' = [pc EXCEPT ![r] = "done"]
              /\ UNCHANGED <<fh, openfds, contents>>
         ELSE /\ fh' = [fh EXCEPT ![r] = arg[r]]
              /\ openfds' = [openfds EXCEPT ![r] = @ + 1]
              /\ contents' = [contents EXCEPT ![r] = String_new]
              /\ pc' = [pc EXCEPT ![r] = "read"]
              /\ UNCHANGED result
    /\ UNCHANGED <<fs, arg, reads, stdout, calls, mainpc, exit>>

\* mutant: the read's failure path prints the buffer before it returns
ReadStepPrintOnErr(r) ==
    /\ pc[r] = "read"
    /\ reads' = [reads EXCEPT ![r] = @ + 1]
    /\ LET rd == read_to_string(fs[HandleOf(r)], contents[r]) IN
         IF rd.status = "Err"
         THEN /\ result' = [result EXCEPT ![r] = Err(ReadErr(r, rd.err, arg[r]))]
              /\ fh' = [fh EXCEPT ![r] = NoHandle]
              /\ openfds' = [openfds EXCEPT ![r] = drop_fh(@)]
              /\ pc' = [pc EXCEPT ![r] = "done"]
              /\ stdout' = Append(stdout,
                                  [by |-> r, text |-> DebugString(contents[r])])
              /\ UNCHANGED contents
         ELSE /\ contents' = [contents EXCEPT ![r] = rd.val]
              /\ pc' = [pc EXCEPT ![r] = "print"]
              /\ UNCHANGED <<result, fh, openfds, stdout>>
    /\ UNCHANGED <<fs, arg, opens, calls, mainpc, exit>>

\* fh.read_to_string(&mut contents).map_err(..)?;
ReadStep(r) ==
    /\ pc[r] = "read"
    /\ reads' = [reads EXCEPT ![r] = @ + 1]
    /\ LET rd == read_to_string(fs[HandleOf(r)], contents[r]) IN
         IF rd.status = "Err"
         THEN /\ result' = [result EXCEPT ![r] = Err(ReadErr(r, rd.err, arg[r]))]
              /\ fh' = [fh EXCEPT ![r] = NoHandle]
              /\ openfds' = [openfds EXCEPT ![r] = drop_fh(@)]
              /\ pc' = [pc EXCEPT ![r] = "done"]
              /\ UNCHANGED contents
         ELSE /\ contents' = [contents EXCEPT ![r] = rd.val]
              /\ pc' = [pc EXCEPT ![r] = "print"]
              /\ UNCHANGED <<result, fh, openfds>>
    /\ UNCHANGED <<fs, arg, opens, stdout, calls, mainpc, exit>>

\* println!("{:?}", contents);
PrintStep(r) ==
    /\ pc[r] = "print"
    /\ stdout' = Append(stdout, [by |-> r, text |-> DebugString(contents[r])])
    /\ pc' = [pc EXCEPT ![r] = "return"]
    /\ UNCHANGED <<fs, arg, fh, openfds, opens, reads, contents, result,
                   calls, mainpc, exit>>

\* Ok(())  and the end of the body, where fh is dropped
ReturnStep(r) ==
    /\ pc[r] = "return"
    /\ result' = [result EXCEPT ![r] = Ok(Unit)]
    /\ fh' = [fh EXCEPT ![r] = NoHandle]
    /\ openfds' = [openfds EXCEPT ![r] = drop_fh(@)]
    /\ pc' = [pc EXCEPT ![r] = "done"]
    /\ UNCHANGED <<fs, arg, opens, reads, contents, stdout, calls, mainpc, exit>>

---------------------------------------------------------------------------
(* The readers as functions of the path and the file system: what one call, *)
(* run alone from start to end, returns                                     *)

thiserror_function(file, f) ==
    LET o == File_open(f[file]) IN
    IF o.status = "Err" THEN Err(thiserror_open_err(o.err, file))
    ELSE LET rd == read_to_string(o.val, String_new) IN
         IF rd.status = "Err" THEN Err(thiserror_read_err(rd.err, file))
         ELSE Ok(Unit)

anyhow_function(file, f) ==
    LET o == File_open(f[file]) IN
    IF o.status = "Err" THEN Err(with_context(o.err, anyhow_open_msg(file)))
    ELSE LET rd == read_to_string(o.val, String_new) IN
         IF rd.status = "Err"
         THEN Err(with_context(rd.err, anyhow_read_msg(file)))
         ELSE Ok(Unit)

dyn_function(file, f) ==
    LET o == File_open(f[file]) IN
    IF o.status = "Err" THEN Err(dyn_open_err(o.err, file))
    ELSE LET rd == read_to_string(o.val, String_new) IN
         IF rd.status = "Err" THEN Err(dyn_read_err(rd.err, file))
         ELSE Ok(Unit)

\* reader r called alone
Call(r, file, f) ==
    CASE r = "thiserror_function" -> thiserror_function(file, f)
      [] r = "anyhow_function" -> anyhow_function(file, f)
      [] r = "dyn_function" -> dyn_function(file, f)

---------------------------------------------------------------------------
(* main *)

NoArg == "<not called>"

\* the text main prints before a reader's error
ReportLabel(r) ==
    CASE r = "thiserror_function" -> "Thiserror error: "
      [] r = "anyhow_function" -> "Anyhow error: "
      [] r = "dyn_function" -> "BoxDyn error: "

\* the exit code of a main that returns res
ExitCode(res) == IF res.status = "Ok" THEN 0 ELSE 1

\* main calls the next reader on "myfile.txt"
MainCall ==
    /\ mainpc = "call"
    /\ LET r == MainOrder[Len(calls) + 1] IN
         /\ calls' = Append(calls, r)
         /\ arg' = [arg EXCEPT ![r] = DemoPath]
         /\ pc' = [pc EXCEPT ![r] = "open"]
    /\ mainpc' = "in_call"
    /\ UNCHANGED <<fs, fh, openfds, opens, reads, contents, result, stdout, exit>>

\* mutant: the error propagated with `?` instead of reported
MainIfLetPropagate ==
    /\ mainpc = "in_call"
    /\ LET r == MainOrder[Len(calls)] IN
         /\ pc[r] = "done"
         /\ IF result[r].status = "Err"
            THEN mainpc' = "exited" /\ exit' = <<ExitCode(result[r])>>
            ELSE /\ mainpc' = IF Len(calls) = Len(MainOrder)
                              THEN "return" ELSE "call"
                 /\ exit' = exit
    /\ UNCHANGED <<fs, arg, pc, fh, openfds, opens, reads, contents, result,
                   stdout, calls>>

\* if let Err(e) = <the call> { println!("<label>{:?}", e); }
MainIfLet ==
    /\ mainpc = "in_call"
    /\ LET r == MainOrder[Len(calls)] IN
         /\ pc[r] = "done"
         /\ stdout' = IF result[r].status = "Err"
                      THEN Append(stdout, [by |-> "main",
                                           label |-> ReportLabel(r),
                                           err |-> result[r].err])
                      ELSE stdout
    /\ mainpc' = IF Len(calls) = Len(MainOrder) THEN "return" ELSE "call"
    /\ UNCHANGED <<fs, arg, pc, fh, openfds, opens, reads, contents, result,
                   calls, exit>>

\* Ok(())  at the end of main
MainReturn ==
    /\ mainpc = "return"
    /\ exit' = <<ExitCode(Ok(Unit))>>
    /\ mainpc' = "exited"
    /\ UNCHANGED <<fs, arg, pc, fh, openfds, opens, reads, contents, result,
                   stdout, calls>>

---------------------------------------------------------------------------
(* Specifications *)

InitCommon ==
    /\ fs \in [Paths -> Entries]
    /\ fh = [r \in Readers |-> NoHandle]
    /\ openfds = [r \in Readers |-> 0]
    /\ opens = [r \in Readers |-> 0]
    /\ reads = [r \in Readers |-> 0]
    /\ contents = [r \in Readers |-> String_new]
    /\ result = [r \in Readers |-> NoResult]
    /\ stdout = <<>>
    /\ calls = <<>>
    /\ exit = <<>>

\* the program at the start of main
Init ==
    /\ InitCommon
    /\ arg = [r \in Readers |-> NoArg]
    /\ pc = [r \in Readers |-> "idle"]
    /\ mainpc = "call"

Next ==
    \/ MainCall
    \/ \E r \in Readers : OpenStep(r)
    \/ \E r \in Readers : ReadStep(r)
    \/ \E r \in Readers : PrintStep(r)
    \/ \E r \in Readers : ReturnStep(r)
    \/ MainIfLet
    \/ MainReturn

Spec == Init /\ [][Next]_vars

\* three threads, each about to run one reader on a path of its own
InitReaders ==
    /\ InitCommon
    /\ arg \in [Readers -> Paths]
    /\ pc = [r \in Readers |-> "open"]
    /\ mainpc = "threads"

NextReaders ==
    \/ \E r \in Readers : OpenStep(r)
    \/ \E r \in Readers : ReadStep(r)
    \/ \E r \in Readers : PrintStep(r)
    \/ \E r \in Readers : ReturnStep(r)

SpecReaders == InitReaders /\ [][NextReaders]_vars


---------------------------------------------------------------------------
(* Properties *)

Done(r) == pc[r] = "done"
Failed(r) == Done(r) /\ result[r].status = "Err"
Succeeded(r) == Done(r) /\ result[r].status = "Ok"

\* the entry the reader's path names
Entry(r) == fs[arg[r]]

\* the lines reader r itself printed
PrintsOf(r) == SelectSeq(stdout, LAMBDA l : l.by = r)

\* the fault classification the operating system gives each kind of entry
FaultKind(e) ==
    CASE e.type = "Missing" -> "NotFound"
      [] e.type = "Denied" -> "PermissionDenied"
      [] e.type = "Directory" -> "IsADirectory"
      [] e.type = "Binary" -> "InvalidData"
      [] OTHER -> "none"

\* the io::Error the failing call of reader r raised
Cause(r) ==
    IF reads[r] = 0 THEN File_open(Entry(r)).err
    ELSE read_to_string(Entry(r), String_new).err

\* the context message of the stage reader r failed at, as the code words it
StageMsg(r) ==
    (IF reads[r] = 0 THEN "Failed to open " ELSE "Failed to read ") \o arg[r]

\* the same message as the specification words it
StageMsgLower(r) ==
    (IF reads[r] = 0 THEN "failed to open " ELSE "failed to read ") \o arg[r]

\* C1: a reader called on a path that does not exist returns Err, never Ok,
\* and the fault leaves the call only as that returned value: the call ends
\* with a result, at the open, without reading or printing.
C1_MissingPathFails ==
    \A r \in Readers :
        (Done(r) /\ Entry(r).type = "Missing") =>
            /\ result[r].status = "Err"
            /\ reads[r] = 0
            /\ PrintsOf(r) = <<>>

C1_Witness ==
    \A r \in Readers : Done(r) /\ Entry(r).type = "Missing"

\* C2: every failure thiserror_function returns is the IoError variant,
\* from the open as from the read; its file is the input path and its source
\* is the io::Error the failing call raised, kind unchanged. It is never
\* InvalidHeader or Other.
C2_TaggedIsIoError ==
    LET r == "thiserror_function" IN
    Failed(r) =>
        /\ result[r].err.variant = "IoError"
        /\ result[r].err.file = arg[r]
        /\ result[r].err.source = Cause(r)
        /\ result[r].err.source.kind = FaultKind(Entry(r))

C2_Witness ==
    LET r == "thiserror_function" IN
    Failed(r) /\ reads[r] = 1 /\ Entry(r).type = "Binary"

\* C3 as stated: every failure anyhow_function returns is a chain of exactly
\* two frames, the outer one reading "failed to open {path}" or "failed to
\* read {path}", the inner one the original io::Error.
C3_AsStated ==
    LET r == "anyhow_function" IN
    Failed(r) =>
        /\ Len(chain(result[r].err)) = 2
        /\ chain(result[r].err)[1].display = StageMsgLower(r)
        /\ chain(result[r].err)[2] = Cause(r)

\* C3 amended: the same, with the outer frame reading "Failed to open {path}"
\* or "Failed to read {path}" (capital F), as the code formats it.
C3_ContextChain ==
    LET r == "anyhow_function" IN
    Failed(r) =>
        /\ Len(chain(result[r].err)) = 2
        /\ chain(result[r].err)[1].display = StageMsg(r)
        /\ chain(result[r].err)[2] = Cause(r)
        /\ chain(result[r].err)[2].kind = FaultKind(Entry(r))

C3_Witness ==
    LET r == "anyhow_function" IN
    Failed(r) /\ reads[r] = 1 /\ Entry(r).type = "Directory"

\* C4 as stated: every failure dyn_function returns is a new error that
\* keeps only the kind of the original (NotFound for a missing file) and the
\* message "failed to open {path}" or "failed to read {path}"; the original
\* cause is not retained.
C4_AsStated ==
    LET r == "dyn_function" IN
    Failed(r) =>
        /\ result[r].err.kind = FaultKind(Entry(r))
        /\ result[r].err.kind = Cause(r).kind
        /\ result[r].err.msg = StageMsgLower(r)
        /\ result[r].err.repr = "Custom"
        /\ result[r].err.code = 0
        /\ result[r].err # Cause(r)

\* C4 amended: the same, with the message "Failed to open {path}" or
\* "Failed to read {path}" (capital F), as the code formats it.
C4_ErasedKeepsKindOnly ==
    LET r == "dyn_function" IN
    Failed(r) =>
        /\ result[r].err.kind = FaultKind(Entry(r))
        /\ result[r].err.kind = Cause(r).kind
        /\ result[r].err.msg = StageMsg(r)
        /\ result[r].err.repr = "Custom"
        /\ result[r].err.code = 0
        /\ result[r].err # Cause(r)

C4_Witness ==
    LET r == "dyn_function" IN
    Failed(r) /\ reads[r] = 0 /\ Entry(r).type = "Missing"

LinesFor(r) ==
    IF result[r].status = "Err"
    THEN <<[by |-> "main", label |-> ReportLabel(r), err |-> result[r].err]>>
    ELSE <<[by |-> r, text |-> DebugString(contents[r])]>>

\* C6: main invokes the readers in the order thiserror_function,
\* anyhow_function, dyn_function, each once and on the same path; a failed
\* reader does not keep a later one from being invoked; each failure is
\* reported once, right after the reader that produced it; main is never
\* stuck before its end and ends with exit code 0 whatever the three reads
\* gave.
C6_DriverRunsAllThree ==
    /\ calls = SubSeq(MainOrder, 1, Len(calls))
    /\ \A r \in Readers : opens[r] <= 1
    /\ mainpc # "exited" => ENABLED Next
    /\ mainpc = "exited" =>
        /\ calls = MainOrder
        /\ \A r \in Readers : Done(r) /\ arg[r] = DemoPath /\ opens[r] = 1
        /\ stdout = LinesFor(MainOrder[1]) \o LinesFor(MainOrder[2])
                        \o LinesFor(MainOrder[3])
        /\ exit = <<0>>

C6_Witness ==
    /\ mainpc = "exited"
    /\ \A r \in Readers : Failed(r)
    /\ fs[DemoPath].type = "Missing"

\* C7: with the readers run from independent threads, their steps
\* interleaved in any way, each reader returns what it returns when called
\* alone on the same file system.
C7_InterleavingIndependent ==
    \A r \in Readers : Done(r) => result[r] = Call(r, arg[r], fs)

C7_Witness ==
    /\ \A r \in Readers : Done(r)
    /\ Succeeded("thiserror_function")
    /\ Failed("anyhow_function")
    /\ Failed("dyn_function") /\ reads["dyn_function"] = 0
    /\ stdout # <<>>

\* C8: a call holds at most one open file handle, reads at most once and
\* only after a successful open, does not read after a failed open, and
\* leaves no handle open once it has returned, on every exit path.
C8_HandleDiscipline ==
    \A r \in Readers :
        /\ openfds[r] <= 1
        /\ reads[r] <= 1
        /\ reads[r] = 1 => (opens[r] = 1 /\ File_open(Entry(r)).status = "Ok")
        /\ (Done(r) /\ File_open(Entry(r)).status = "Err") => reads[r] = 0
        /\ (fh[r] # NoHandle) <=> (openfds[r] = 1)
        /\ Done(r) => (openfds[r] = 0 /\ fh[r] = NoHandle)

C8_Witness ==
    /\ \A r \in Readers : Done(r) /\ opens[r] = 1
    /\ \E r \in Readers : Failed(r) /\ reads[r] = 1
    /\ \E r \in Readers : Failed(r) /\ reads[r] = 0

\* C9: a reader prints the contents exactly once if and only if it returns
\* success, after the read and before the return; a reader that fails
\* prints nothing.
C9_PrintIffSuccess ==
    \A r \in Readers :
        /\ Len(PrintsOf(r)) <= 1
        /\ Len(PrintsOf(r)) = 1 =>
              (reads[r] = 1 /\ pc[r] \in {"return", "done"})
        /\ Succeeded(r) => Len(PrintsOf(r)) = 1
        /\ Failed(r) => Len(PrintsOf(r)) = 0

C9_Witness ==
    /\ \A r \in Readers : Done(r)
    /\ \E r \in Readers : Succeeded(r) /\ Len(PrintsOf(r)) = 1
    /\ \E r \in Readers : Failed(r) /\ reads[r] = 1

\* the fault classification carried by the error reader r returned
KindOf(r) ==
    CASE r = "thiserror_function" -> result[r].err.source.kind
      [] r = "anyhow_function" ->
            chain(result[r].err)[Len(chain(result[r].err))].kind
      [] r = "dyn_function" -> result[r].err.kind

\* C10: on the same path and file system the three readers all succeed or
\* all fail, and when they fail they fail at the same stage with the same
\* fault classification.
C10_OutcomeEquivalent ==
    \A r1, r2 \in Readers :
        (Done(r1) /\ Done(r2) /\ arg[r1] = arg[r2]) =>
            /\ result[r1].status = result[r2].status
            /\ Failed(r1) =>
                  /\ reads[r1] = reads[r2]
                  /\ KindOf(r1) = KindOf(r2)
                  /\ KindOf(r1) = FaultKind(Entry(r1))

C10_Witness ==
    /\ \A r \in Readers : Failed(r) /\ reads[r] = 1
    /\ \A r \in Readers : arg[r] = arg["dyn_function"]
    /\ Entry("dyn_function").type = "Directory"

=============================================================================
